---- MODULE Spec2Model ----
(***************************************************************************)
(* Session / workflow engine of the agent builder server (src/src/index.ts,*)
(* the Groq variant, lines 307-658): agent creation, the sessions table    *)
(* and the POST /agent/:agentId/interact handler.                          *)
(*                                                                         *)
(* Every handler is an async function: the code between two awaits runs    *)
(* atomically on the Node.js event loop, and each awaited database or      *)
(* remote call is one step.  A request is therefore a small process whose  *)
(* pc names the await it is suspended at.                                  *)
(***************************************************************************)
EXTENDS Integers, Sequences, FiniteSets, TLC

\* ------------------------------------------------------------------ bounds
MaxTurns      == 3  \* interact requests sent one at a time
MaxConcurrent == 2  \* interact requests sent without waiting for a reply
MaxAgents     == 2  \* create requests issued in one behaviour
MaxNodes      == 3  \* longest workflow a create request carries
MaxDocs       == 2  \* most knowledge docs a create request carries
MaxLines      == 2  \* most lines a fetched CSV has
MaxClock      == 2  \* last millisecond Date.now() reaches

SessionIds == {"s1", "s2"}
Inputs     == {"Ada", "hi"}

\* Node ids a workflow can use: the four ids the switch of the interact
\* handler knows.
NodeOrder == <<"greet", "collectInformation", "askQuestions", "followUp">>

\* A nextNode naming no node of any workflow.
MissingNode == "handoff"

\* nextNode is optional (interface WorkflowNode): Absent is the missing key.
Absent == "<absent>"

\* ------------------------------------------------------- JavaScript values
\* The values the handler's `context` can hold, and the TEXT they are stored
\* as.  A text is identified by the value whose JSON encoding it is.
JNull       == [t |-> "null"]
EmptyObject == [t |-> "object", userInfo |-> Absent]
JString(text) == [t |-> "string", text |-> text]

\* JSON.stringify: the JSON text of a value.  Of a string it is that string
\* quoted, which is a text different from the string itself.
JSONstringify(v) == [json |-> v]

\* JSON.parse: the value a JSON text encodes.
JSONparse(text) == text.json

\* SQL NULL, and what sqlite hands back for a column: null for NULL, a
\* JavaScript string for TEXT.
SqlNull == [sqlnull |-> TRUE]
FromColumn(c) == IF c = SqlNull THEN JNull ELSE JString(c)

\* ---------------------------------------------------------------- workflows
\* body.workflow of a create request: a window of NodeOrder of at most
\* MaxNodes nodes, each node pointing at the following one; the last node
\* has no nextNode, points back at the first, or names a node that does not
\* exist.  The empty workflow is a request too.
Window(i, n, tail) ==
    [k \in 1..n |->
        [id |-> NodeOrder[i + k - 1],
         nextNode |-> IF k < n THEN NodeOrder[i + k]
                      ELSE IF tail = "cycle" THEN NodeOrder[i] ELSE tail]]

Workflows ==
    {<< >>} \cup
    { Window(p[1], p[2], tail) :
        p \in { q \in (1..Len(NodeOrder)) \X (1..MaxNodes) :
                    q[1] + q[2] - 1 <= Len(NodeOrder) },
        tail \in {Absent, "cycle", MissingNode} }

\* knowledge_docs of a create request, by the type of each doc: one csv doc.
DocLists == { <<"csv">> }

\* knowledge_docs with up to MaxDocs docs, of a supported type or not.
RECURSIVE DocListsOfLen(_)
DocListsOfLen(n) ==
    IF n = 0 THEN { << >> }
    ELSE { Append(d, type) : d \in DocListsOfLen(n - 1),
                             type \in {"csv", "pdf"} }

AllDocLists == UNION { DocListsOfLen(n) : n \in 0..MaxDocs }

\* ------------------------------------------------------------------- state
VARIABLES
    strictMode,   \* whether the build runs the module as strict-mode code
    agents,       \* table agents: the ids inserted so far
    workflows,    \* table workflows: agentId -> row, or NoRow
    sessions,     \* table sessions: sessionId (PRIMARY KEY) -> row, or NoRow
    creates,      \* the POST /agent/create requests
    turns,        \* the POST /agent/:agentId/interact requests
    index,        \* the Pinecone index: the records upserted so far
    now,          \* Date.now()
    leads,        \* the lead store
    calls         \* the function call each turn's reply generation signalled

vars == <<strictMode, agents, workflows, sessions, creates, turns,
          index, now, leads, calls>>

NoRow     == [norow |-> TRUE]
Undefined == "<undefined>"
AgentIds  == 1..MaxAgents
TurnIds   == 1..MaxTurns
CreateIds == 1..MaxAgents

\* docs are the knowledge docs not yet ingested and doc the position of
\* the first of them in body.knowledge_docs; lines and vectors belong to the
\* ingestion call under way; upserted counts the records handed to upsert.
IdleCreate ==
    [pc |-> "idle", workflow |-> << >>, docs |-> << >>, agentId |-> 0,
     outcome |-> "none", doc |-> 0, lines |-> 0, vectors |-> {},
     upserted |-> 0]

NoCall == [nocall |-> TRUE]

IdleTurn ==
    [pc |-> "idle", sessionId |-> "", agentId |-> 0, input |-> "",
     session |-> "none", currentNode |-> Undefined, context |-> JNull,
     nextNode |-> Absent, outcome |-> "none", message |-> "",
     retrieval |-> "none", writes |-> 0]

Init ==
    /\ strictMode \in BOOLEAN
    /\ agents = {}
    /\ workflows = [a \in AgentIds |-> NoRow]
    /\ sessions = [s \in SessionIds |-> NoRow]
    /\ creates = [c \in CreateIds |-> IdleCreate]
    /\ turns = [i \in TurnIds |-> IdleTurn]
    /\ index = {}
    /\ now = 0
    /\ leads = << >>
    /\ calls = [i \in TurnIds |-> NoCall]

\* ------------------------------------------------------ POST /agent/create
HasCsv(docs) == \E k \in 1..Len(docs) : docs[k] = "csv"

\* INSERT INTO agents: the row gets the next AUTOINCREMENT id (result.lastID).
\* wf and docs are body.workflow and body.knowledge_docs.
CreateInsertAgent(c, wf, docs) ==
    /\ creates[c].pc = "idle"
    /\ IF c = 1 THEN TRUE ELSE creates[c - 1].pc # "idle"
    /\ LET id == Cardinality(agents) + 1 IN
         /\ agents' = agents \cup {id}
         /\ creates' = [creates EXCEPT ![c] =
                [@ EXCEPT !.pc = "insertWorkflow", !.workflow = wf,
                          !.docs = docs, !.agentId = id]]
    /\ UNCHANGED <<strictMode, workflows, sessions, turns, index, now, leads,
                   calls>>

\* The request is answered: its body is gone, the reply stays.
Replied(cr, outcome) ==
    [cr EXCEPT !.pc = "done", !.outcome = outcome,
               !.workflow = << >>, !.docs = << >>, !.doc = 0,
               !.lines = 0, !.vectors = {}]

\* for (const doc of body.knowledge_docs): docs of another type than csv are
\* logged and skipped without an await.
RECURSIVE SkipToCsv(_)
SkipToCsv(cr) ==
    IF cr.docs = << >> \/ Head(cr.docs) = "csv" THEN cr
    ELSE SkipToCsv([cr EXCEPT !.docs = Tail(@), !.doc = @ + 1])

\* The loop over knowledge_docs up to its next await: the fetch of the next
\* csv doc, or the success reply when no csv doc is left.
NextDoc(cr) ==
    LET r == SkipToCsv(cr) IN
    IF r.docs = << >> THEN Replied(r, "success")
    ELSE [r EXCEPT !.pc = "fetch"]

\* A handler that goes on to the knowledge docs without storing the workflow.
CreateInsertWorkflow_NoInsert(c) ==
    /\ creates[c].pc = "insertWorkflow"
    /\ creates' = [creates EXCEPT ![c] = NextDoc([@ EXCEPT !.workflow = << >>])]
    /\ UNCHANGED <<strictMode, agents, workflows, sessions, turns, index, now,
                   leads, calls>>

\* INSERT INTO workflows of JSON.stringify(body.workflow).  With no csv doc
\* the loop over knowledge_docs awaits nothing and the success reply follows.
CreateInsertWorkflow(c) ==
    /\ creates[c].pc = "insertWorkflow"
    /\ workflows' = [workflows EXCEPT ![creates[c].agentId] =
            [workflowJson |-> JSONstringify(creates[c].workflow)]]
    /\ creates' = [creates EXCEPT ![c] = NextDoc([@ EXCEPT !.workflow = << >>])]
    /\ UNCHANGED <<strictMode, agents, sessions, turns, index, now, leads,
                   calls>>

\* ingestCsvIntoPinecone: await fetchCsvLines(csvUrl), which resolves with
\* the n non-empty lines of the CSV or throws into the catch of the handler.
CreateFetchCsvLines(c, n) ==
    /\ creates[c].pc = "fetch"
    /\ \E ok \in BOOLEAN :
         creates' = [creates EXCEPT ![c] =
            IF ok THEN [@ EXCEPT !.pc = "embed", !.lines = n]
            ELSE Replied(@, "error")]
    /\ UNCHANGED <<strictMode, agents, workflows, sessions, turns, index, now,
                   leads, calls>>

\* lines.map((line, i) => ({id: `${agentId}-${Date.now()}-${i}`, ...})): one
\* record per line, its id made of the agent id, the clock and the position
\* of the line; source is the doc and content the line.
Vectors(agentId, time, doc, n) ==
    { [id |-> <<agentId, time, k>>, source |-> doc, content |-> k] :
        k \in 0..(n - 1) }

\* ingestCsvIntoPinecone: await getGroqEmbeddings(lines) resolves or throws;
\* when it resolves the vectors are built and the upsert is issued.
CreateEmbed(c) ==
    /\ creates[c].pc = "embed"
    /\ \E ok \in BOOLEAN :
         creates' = [creates EXCEPT ![c] =
            IF ok
            THEN [@ EXCEPT !.pc = "upsert",
                           !.vectors = Vectors(creates[c].agentId, now,
                                               creates[c].doc,
                                               creates[c].lines)]
            ELSE Replied(@, "error")]
    /\ UNCHANGED <<strictMode, agents, workflows, sessions, turns, index, now,
                   leads, calls>>

\* index.upsert: a record replaces the stored record that has its id.
Upsert(stored, vectors) ==
    { r \in stored : \A v \in vectors : v.id # r.id } \cup vectors

\* ingestCsvIntoPinecone: await index.upsert({ vectors }) resolves or throws;
\* when it resolves the loop goes on with the next doc.
CreateUpsert(c) ==
    /\ creates[c].pc = "upsert"
    /\ \E ok \in BOOLEAN :
         IF ok
         THEN /\ index' = Upsert(index, creates[c].vectors)
              /\ creates' = [creates EXCEPT ![c] =
                    NextDoc([@ EXCEPT !.docs = Tail(@), !.doc = @ + 1,
                                      !.lines = 0, !.vectors = {},
                                      !.upserted = @ + creates[c].lines])]
         ELSE /\ creates' = [creates EXCEPT ![c] = Replied(@, "error")]
              /\ UNCHANGED index
    /\ UNCHANGED <<strictMode, agents, workflows, sessions, turns, now, leads,
                   calls>>

\* The clock of the host moves on.
Tick ==
    /\ now < MaxClock
    /\ now' = now + 1
    /\ UNCHANGED <<strictMode, agents, workflows, sessions, creates, turns,
                   index, leads, calls>>

\* ------------------------------------------- POST /agent/:agentId/interact
\* A find that falls back to the first node when no node has the id.
FindStep_Reset(parsed, id) ==
    IF \E k \in 1..Len(parsed) : parsed[k].id = id
    THEN CHOOSE k \in 1..Len(parsed) :
            /\ parsed[k].id = id
            /\ \A j \in 1..(k - 1) : parsed[j].id # id
    ELSE IF Len(parsed) > 0 THEN 1 ELSE 0

\* parsedWorkflow.find(node => node.id === currentNode): the index of the
\* first node with that id, 0 when there is none.
FindStep(parsed, id) ==
    IF \E k \in 1..Len(parsed) : parsed[k].id = id
    THEN CHOOSE k \in 1..Len(parsed) :
            /\ parsed[k].id = id
            /\ \A j \in 1..(k - 1) : parsed[j].id # id
    ELSE 0

\* context["userInfo"] = input.  On an object the property is set.  On null
\* it is a TypeError.  On a string primitive it is a TypeError in strict-mode
\* code and is silently ignored otherwise.
SetUserInfo(context, input) ==
    CASE context.t = "object" ->
            [threw |-> FALSE, context |-> [context EXCEPT !.userInfo = input]]
      [] context.t = "null" ->
            [threw |-> TRUE, context |-> context]
      [] OTHER ->
            [threw |-> strictMode, context |-> context]

\* A next node that is the current step itself.
NextNodeOf_Stay(parsed, k) == parsed[k].id

\* A next node that wraps around to the first node after the last step.
NextNodeOf_Wrap(parsed, k) ==
    IF parsed[k].nextNode = Absent THEN parsed[1].id ELSE parsed[k].nextNode

\* A next node read from the first step of the workflow, not the current one.
NextNodeOf_First(parsed, k) == parsed[1].nextNode

\* currentStep.nextNode || null, with Absent for null.
NextNodeOf(parsed, k) == parsed[k].nextNode

\* The catch block: status 500 with the error's message.
Fail(t, message) ==
    [t EXCEPT !.pc = "done", !.outcome = "error", !.message = message]

\* if (nextNode) await updateSession(...): the UPDATE is issued only when
\* nextNode is truthy, otherwise the success reply is sent at once.
AfterSwitch(t, message) ==
    IF t.nextNode # Absent
    THEN [t EXCEPT !.pc = "updateSession", !.message = message]
    ELSE [t EXCEPT !.pc = "done", !.outcome = "success", !.message = message]

InFlight == { j \in TurnIds : turns[j].pc \notin {"idle", "done"} }

\* getCurrentSession: SELECT * FROM sessions WHERE sessionId = ? AND agentId = ?
\* The request arrives and its first query runs.  A row that is found is
\* returned as it is: context is the TEXT column, not parsed.
\* s, a and input are body.sessionId, params.agentId and body.input.
TurnSelectSession(i, s, a, input) ==
    /\ turns[i].pc = "idle"
    /\ IF i = 1 THEN TRUE ELSE turns[i - 1].pc # "idle"
    /\ LET row == sessions[s]
             found == row # NoRow /\ row.agentId = a
             t0 == [turns[i] EXCEPT !.sessionId = s, !.agentId = a,
                                    !.input = input]
         IN turns' = [turns EXCEPT ![i] =
                IF found
                THEN [t0 EXCEPT !.pc = "selectWorkflow",
                                !.session = "found",
                                !.currentNode = row.currentNode,
                                !.context = FromColumn(row.context)]
                ELSE [t0 EXCEPT !.pc = "selectWorkflowInit"]]
    /\ UNCHANGED <<strictMode, agents, workflows, sessions, creates, index, now,
                   leads, calls>>

\* getCurrentSession, no session: SELECT workflowJson, parse it, take the id
\* of its first node (undefined for an empty workflow).
TurnSelectWorkflowInit(i) ==
    /\ turns[i].pc = "selectWorkflowInit"
    /\ LET t == turns[i]
           wrow == workflows[t.agentId]
       IN turns' = [turns EXCEPT ![i] =
            IF wrow = NoRow
            THEN Fail(t, "Workflow not found")
            ELSE LET parsed == JSONparse(wrow.workflowJson) IN
                 [t EXCEPT !.pc = "insertSession",
                           !.currentNode = IF Len(parsed) > 0
                                           THEN parsed[1].id ELSE Undefined]]
    /\ UNCHANGED <<strictMode, agents, workflows, sessions, creates, index, now,
                   leads, calls>>

\* An INSERT into a table whose sessionId is not a key.
InsertViolates_NoKey(table, sessionId, currentNode) ==
    currentNode = Undefined

\* Whether INSERT INTO sessions (sessionId, agentId, currentNode) violates a
\* constraint of the table: sessionId is the PRIMARY KEY, currentNode is NOT
\* NULL (an undefined parameter is bound as NULL).
InsertViolates(table, sessionId, currentNode) ==
    table[sessionId] # NoRow \/ currentNode = Undefined

\* getCurrentSession, no session: the INSERT.  The context column is left
\* NULL; the session returned to the handler carries a fresh empty object.
TurnInsertSession(i) ==
    /\ turns[i].pc = "insertSession"
    /\ LET t == turns[i] IN
       IF InsertViolates(sessions, t.sessionId, t.currentNode)
       THEN /\ turns' = [turns EXCEPT ![i] = Fail(t, "SQLITE_CONSTRAINT")]
            /\ UNCHANGED sessions
       ELSE /\ sessions' = [sessions EXCEPT ![t.sessionId] =
                    [agentId |-> t.agentId, currentNode |-> t.currentNode,
                     context |-> SqlNull]]
            /\ turns' = [turns EXCEPT ![i] =
                    [t EXCEPT !.pc = "selectWorkflow", !.session = "created",
                              !.context = EmptyObject, !.writes = @ + 1]]
    /\ UNCHANGED <<strictMode, agents, workflows, creates, index, now,
                   leads, calls>>

\* The handler after getCurrentSession: SELECT workflowJson, find the current
\* step, run the switch on its id up to the next await.
TurnSelectWorkflow(i) ==
    /\ turns[i].pc = "selectWorkflow"
    /\ LET t == turns[i]
           wrow == workflows[t.agentId]
       IN turns' = [turns EXCEPT ![i] =
            IF wrow = NoRow
            THEN Fail(t, "Workflow not found")
            ELSE
              LET parsed == JSONparse(wrow.workflowJson)
                  k == FindStep(parsed, t.currentNode)
              IN
              IF k = 0
              THEN Fail(t, "Invalid workflow step")
              ELSE
                LET t1 == [t EXCEPT !.nextNode = NextNodeOf(parsed, k)] IN
                CASE parsed[k].id = "greet" ->
                        AfterSwitch(t1, "Hello! How can I assist you today?")
                  [] parsed[k].id = "collectInformation" ->
                        LET w == SetUserInfo(t.context, t.input) IN
                        IF w.threw
                        THEN Fail(t1, "TypeError")
                        ELSE AfterSwitch([t1 EXCEPT !.context = w.context],
                                "Thank you! Your information has been saved.")
                  [] parsed[k].id = "askQuestions" ->
                        [t1 EXCEPT !.pc = "embed"]
                  [] parsed[k].id = "followUp" ->
                        AfterSwitch(t1,
                            "I've sent a follow-up email to your address.")
                  [] OTHER ->
                        AfterSwitch(t1, "I'm not sure how to proceed.")]
    /\ UNCHANGED <<strictMode, agents, workflows, sessions, creates, index, now,
                   leads, calls>>

\* An embeddings call made after the session was moved on: when it throws,
\* the UPDATE of the session has already been done.
TurnEmbed_WriteFirst(i) ==
    /\ turns[i].pc = "embed"
    /\ \E ok \in BOOLEAN :
         IF ok
         THEN /\ turns' = [turns EXCEPT ![i] = [@ EXCEPT !.pc = "query"]]
              /\ UNCHANGED sessions
         ELSE /\ turns' = [turns EXCEPT ![i] =
                    Fail([@ EXCEPT !.retrieval = "failed",
                                   !.writes = @ + 1], "embeddings failed")]
              /\ sessions' = [sessions EXCEPT ![turns[i].sessionId] =
                    [@ EXCEPT !.currentNode = turns[i].nextNode,
                              !.context = JSONstringify(turns[i].context)]]
    /\ UNCHANGED <<strictMode, agents, workflows, creates, index, now,
                   leads, calls>>

\* case "askQuestions": await getGroqEmbeddings([input]), which rethrows
\* whatever the embeddings call throws.
TurnEmbed(i) ==
    /\ turns[i].pc = "embed"
    /\ \E ok \in BOOLEAN :
         turns' = [turns EXCEPT ![i] =
            IF ok THEN [@ EXCEPT !.pc = "query"]
            ELSE Fail([@ EXCEPT !.retrieval = "failed"], "embeddings failed")]
    /\ UNCHANGED <<strictMode, agents, workflows, sessions, creates, index, now,
                   leads, calls>>

\* case "askQuestions": await index.query(...), then the reply text built
\* from the matches.
TurnQuery(i) ==
    /\ turns[i].pc = "query"
    /\ \E ok \in BOOLEAN :
         turns' = [turns EXCEPT ![i] =
            IF ok THEN AfterSwitch([@ EXCEPT !.retrieval = "ok"],
                                   "Here's what I found: ...")
            ELSE Fail([@ EXCEPT !.retrieval = "failed"], "query failed")]
    /\ UNCHANGED <<strictMode, agents, workflows, sessions, creates, index, now,
                   leads, calls>>

\* An UPDATE whose WHERE clause names the agent only.
UpdateRows_AnySession(table, sessionId, agentId, nextNode, text) ==
    [s \in DOMAIN table |->
        IF table[s] # NoRow /\ table[s].agentId = agentId
        THEN [table[s] EXCEPT !.currentNode = nextNode, !.context = text]
        ELSE table[s]]

\* UPDATE sessions SET currentNode = ?, context = ? WHERE sessionId = ? AND
\* agentId = ?
UpdateRows(table, sessionId, agentId, nextNode, text) ==
    [s \in DOMAIN table |->
        IF s = sessionId /\ table[s] # NoRow /\ table[s].agentId = agentId
        THEN [table[s] EXCEPT !.currentNode = nextNode, !.context = text]
        ELSE table[s]]

\* updateSession with JSON.stringify(context), then the success reply.
TurnUpdateSession(i) ==
    /\ turns[i].pc = "updateSession"
    /\ LET t == turns[i] IN
       /\ sessions' = UpdateRows(sessions, t.sessionId, t.agentId,
                                 t.nextNode, JSONstringify(t.context))
       /\ turns' = [turns EXCEPT ![i] =
            [t EXCEPT !.pc = "done", !.outcome = "success",
                      !.writes = @ + 1]]
    /\ UNCHANGED <<strictMode, agents, workflows, creates, index, now,
                   leads, calls>>

\* ------------------------------------------------------------ lead capture
\* The interact handler under src/ signals no function call and writes no
\* lead; the dispatch below follows the written specification of the engine
\* (handleTurn, step 6) and the Contact table of the migration.
FunctionNames == {"saveLeadData", "sendBrochure"}
Infos         == {"wants a callback", "no thanks"}

\* A lead whose followupInfo is the user info of the context.
LeadRecord_FromContext(i, context, info) ==
    LET name == IF context.t = "object" /\ context.userInfo # Absent
                THEN context.userInfo ELSE "Unknown"
    IN [turn |-> i, name |-> name, followupInfo |-> name]

\* The lead written on dispatch: fields taken from the accumulated context,
\* a placeholder where the context has none, and the argument of the call.
LeadRecord(i, context, info) ==
    [turn |-> i,
     name |-> IF context.t = "object" /\ context.userInfo # Absent
              THEN context.userInfo ELSE "Unknown",
     followupInfo |-> info]

\* The reply generation of turn i signals the function call name({info}),
\* once per turn and after the current node was resolved.  It is dispatched
\* by name: saveLeadData appends a lead, any other name is ignored.
TurnFunctionCall(i, name, info) ==
    /\ turns[i].pc \in {"selectWorkflow", "embed", "query", "updateSession"}
    /\ workflows[turns[i].agentId] # NoRow
    /\ FindStep(JSONparse(workflows[turns[i].agentId].workflowJson),
                turns[i].currentNode) # 0
    /\ calls[i] = NoCall
    /\ calls' = [calls EXCEPT ![i] = [name |-> name, info |-> info]]
    /\ leads' = IF name = "saveLeadData"
                THEN Append(leads, LeadRecord(i, turns[i].context, info))
                ELSE leads
    /\ UNCHANGED <<strictMode, agents, workflows, sessions, creates, turns,
                   index, now>>

\* ---------------------------------------------------------- specifications
\* What the clients do.  They send any workflow and knowledge_docs; they
\* learn an agentId from the success reply of its create request.
Known(a) ==
    \E c \in CreateIds : /\ creates[c].pc = "done"
                         /\ creates[c].outcome = "success"
                         /\ creates[c].agentId = a

\* No request is awaiting its reply.
OneAtATime ==
    /\ InFlight = {}
    /\ \A c \in CreateIds : creates[c].pc \in {"idle", "done"}

\* No turn for session s is awaiting its reply.
Apart(s) == \A j \in InFlight : turns[j].sessionId # s

\* The ingestion of one csv doc, the CSV having at most n lines.
IngestStep(CC, n) ==
    \/ \E c \in CC, k \in 1..n : CreateFetchCsvLines(c, k)
    \/ \E c \in CC : CreateEmbed(c)
    \/ \E c \in CC : CreateUpsert(c)

CreateStep(CC) ==
    \/ \E c \in CC, wf \in Workflows, docs \in DocLists :
         CreateInsertAgent(c, wf, docs)
    \/ \E c \in CC : CreateInsertWorkflow(c)
    \/ IngestStep(CC, 1)

TurnStep ==
    \/ \E i \in TurnIds : TurnSelectWorkflowInit(i)
    \/ \E i \in TurnIds : TurnInsertSession(i)
    \/ \E i \in TurnIds : TurnSelectWorkflow(i)
    \/ \E i \in TurnIds : TurnEmbed(i)
    \/ \E i \in TurnIds : TurnQuery(i)
    \/ \E i \in TurnIds : TurnUpdateSession(i)

\* One agent, its clients sending up to MaxConcurrent turns without waiting
\* for the replies.
Next ==
    \/ CreateStep({1})
    \/ \E i \in 1..MaxConcurrent, s \in SessionIds, input \in Inputs :
         Known(1) /\ TurnSelectSession(i, s, 1, input)
    \/ TurnStep

Spec == Init /\ [][Next]_vars

\* One agent, turns sent one at a time, for an agent id that may not have its
\* workflow yet.
NextSeq ==
    \/ CreateStep({1})
    \/ \E i \in TurnIds, s \in SessionIds, input \in Inputs :
         OneAtATime /\ TurnSelectSession(i, s, 1, input)
    \/ TurnStep

SpecSeq == Init /\ [][NextSeq]_vars

\* One agent, concurrent turns for different sessions only.
NextApart ==
    \/ CreateStep({1})
    \/ \E i \in 1..MaxConcurrent, s \in SessionIds, input \in Inputs :
         Known(1) /\ Apart(s) /\ TurnSelectSession(i, s, 1, input)
    \/ TurnStep

SpecApart == Init /\ [][NextApart]_vars

\* Several agents without knowledge docs, one session id, one turn at a time.
NextAgents ==
    \/ \E c \in CreateIds, wf \in Workflows : CreateInsertAgent(c, wf, << >>)
    \/ \E c \in CreateIds : CreateInsertWorkflow(c)
    \/ \E i \in TurnIds, a \in AgentIds, input \in Inputs :
         OneAtATime /\ Known(a) /\ TurnSelectSession(i, "s1", a, input)
    \/ TurnStep

SpecAgents == Init /\ [][NextAgents]_vars

\* One agent, one session id: up to MaxTurns turns, of which at most
\* MaxConcurrent await their reply at the same time.
NextOverlap ==
    \/ CreateStep({1})
    \/ \E i \in TurnIds, input \in Inputs :
         /\ Known(1)
         /\ Cardinality(InFlight) < MaxConcurrent
         /\ TurnSelectSession(i, "s1", 1, input)
    \/ TurnStep

SpecOverlap == Init /\ [][NextOverlap]_vars

\* Create requests with any knowledge docs and a one-node workflow, CSVs of
\* up to MaxLines lines, and the clock moving on at any moment or not.
NextCreate ==
    \/ \E c \in CreateIds, docs \in AllDocLists :
         CreateInsertAgent(c, Window(1, 1, Absent), docs)
    \/ \E c \in CreateIds : CreateInsertWorkflow(c)
    \/ IngestStep(CreateIds, MaxLines)
    \/ Tick

SpecCreate == Init /\ [][NextCreate]_vars

\* One agent, one session id, turns with the same input sent one at a time,
\* the reply generation of a turn signalling a function call or none.
NextLead ==
    \/ CreateStep({1})
    \/ \E i \in TurnIds :
         OneAtATime /\ Known(1) /\ TurnSelectSession(i, "s1", 1, "Ada")
    \/ TurnStep
    \/ \E i \in TurnIds, name \in FunctionNames, info \in Infos :
         TurnFunctionCall(i, name, info)

SpecLead == Init /\ [][NextLead]_vars

\* ------------------------------------------------------ workflow geometry
WorkflowOf(a) ==
    IF workflows[a] = NoRow THEN << >> ELSE JSONparse(workflows[a].workflowJson)

NodeIdsOf(wf) == { wf[k].id : k \in 1..Len(wf) }

\* The graph invariant: a start node, unique ids, no dangling nextNode.
WellFormed(wf) ==
    /\ Len(wf) > 0
    /\ \A j, k \in 1..Len(wf) : wf[j].id = wf[k].id => j = k
    /\ \A k \in 1..Len(wf) : wf[k].nextNode \in NodeIdsOf(wf) \cup {Absent}

Successor(wf, id) ==
    IF id \in NodeIdsOf(wf)
    THEN wf[CHOOSE k \in 1..Len(wf) : wf[k].id = id].nextNode
    ELSE Absent

RECURSIVE Follow(_, _, _)
Follow(wf, id, n) ==
    IF n = 0 THEN id ELSE Follow(wf, Successor(wf, id), n - 1)

\* None of the first n nodes on the path from the start node is terminal.
PathNonTerminal(wf, n) ==
    \A k \in 0..(n - 1) : Successor(wf, Follow(wf, wf[1].id, k)) # Absent

StartTerminal(wf) == Len(wf) > 0 /\ wf[1].nextNode = Absent

\* The turns of session s that were answered with success.
OkTurns(s) ==
    { i \in TurnIds : /\ turns[i].pc = "done"
                      /\ turns[i].outcome = "success"
                      /\ turns[i].sessionId = s }

\* Session s stands where following nextNode once per successful turn leads.
SessionAtNthNode(s) ==
    sessions[s] # NoRow =>
        LET wf == WorkflowOf(sessions[s].agentId)
            n == Cardinality(OkTurns(s))
        IN (WellFormed(wf) /\ PathNonTerminal(wf, n)) =>
                sessions[s].currentNode = Follow(wf, wf[1].id, n)

\* ------------------------------------------------------------------ claims
\* C1: with turns sent one at a time against a well-formed workflow, after N
\* successful turns of a session its persisted currentNode is the node
\* reached by following nextNode N times from the first workflow entry,
\* provided none of the first N nodes on that path is terminal.
C1_CurrentNodeAfterNTurns == \A s \in SessionIds : SessionAtNthNode(s)

C1_Witness ==
    \E s \in SessionIds :
        /\ sessions[s] # NoRow
        /\ Cardinality(OkTurns(s)) >= 2
        /\ LET wf == WorkflowOf(sessions[s].agentId) IN
           /\ WellFormed(wf)
           /\ Len(wf) >= 2
           /\ PathNonTerminal(wf, Cardinality(OkTurns(s)))
           /\ sessions[s].currentNode =
                Follow(wf, wf[1].id, Cardinality(OkTurns(s)))

\* C2: concurrent turns for one sessionId are serialized, so once they have
\* all completed no update of currentNode is lost: the session has advanced
\* one node per successful turn (two nodes after two turns).
C2_NoLostUpdate ==
    InFlight = {} => \A s \in SessionIds : SessionAtNthNode(s)

\* C3: a successful turn at a collecting node with no successor leaves the
\* user input in the persisted context under the node's key.
C3_TerminalWritePersisted ==
    \A i \in TurnIds :
        ( /\ turns[i].pc = "done"
          /\ turns[i].outcome = "success"
          /\ turns[i].currentNode = "collectInformation"
          /\ turns[i].nextNode = Absent )
        => /\ sessions[turns[i].sessionId] # NoRow
           /\ sessions[turns[i].sessionId].context # SqlNull
           /\ JSONparse(sessions[turns[i].sessionId].context) =
                [t |-> "object", userInfo |-> turns[i].input]

\* C4: every turn answered with success has written the session exactly once.
C4_PersistedExactlyOnce ==
    \A i \in TurnIds :
        (turns[i].pc = "done" /\ turns[i].outcome = "success")
            => turns[i].writes = 1

\* C5: a turn that loads a session whose stored currentNode is no node of the
\* agent's workflow is answered with an error and writes nothing to the
\* session.
StaleTurn(i) ==
    /\ turns[i].pc = "done"
    /\ turns[i].session = "found"
    /\ workflows[turns[i].agentId] # NoRow
    /\ turns[i].currentNode \notin NodeIdsOf(WorkflowOf(turns[i].agentId))

C5_StaleNodeFailsTurn ==
    \A i \in TurnIds :
        StaleTurn(i) => /\ turns[i].outcome = "error"
                        /\ turns[i].message = "Invalid workflow step"
                        /\ turns[i].writes = 0

C5_Witness ==
    \E i \in TurnIds :
        /\ StaleTurn(i)
        /\ turns[i].outcome = "error"
        /\ sessions[turns[i].sessionId].currentNode = turns[i].currentNode

\* C6: a turn whose knowledge retrieval failed is still answered with success.
C6_RetrievalFailureDegrades ==
    \A i \in TurnIds :
        (turns[i].pc = "done" /\ turns[i].retrieval = "failed")
            => turns[i].outcome = "success" /\ turns[i].message # ""

\* C7: the context a turn loads from an existing session is the mapping whose
\* JSON text the session row holds.
C7_ContextRoundTrips ==
    \A i \in TurnIds :
        ( /\ turns[i].pc = "selectWorkflow"
          /\ turns[i].session = "found"
          /\ sessions[turns[i].sessionId].context # SqlNull )
        => turns[i].context = JSONparse(sessions[turns[i].sessionId].context)

\* C8: when the start node of the workflow has no successor, every successful
\* turn of a session runs at the start node and returns nextNode null, and
\* the session never stands at any other node.
C8_TerminalStartEnds ==
    \A s \in SessionIds :
        (sessions[s] # NoRow /\ StartTerminal(WorkflowOf(sessions[s].agentId)))
        => LET wf == WorkflowOf(sessions[s].agentId) IN
           /\ sessions[s].currentNode = wf[1].id
           /\ \A i \in OkTurns(s) : /\ turns[i].currentNode = wf[1].id
                                    /\ turns[i].nextNode = Absent

C8_Witness ==
    \E s \in SessionIds :
        /\ sessions[s] # NoRow
        /\ StartTerminal(WorkflowOf(sessions[s].agentId))
        /\ Cardinality(OkTurns(s)) >= 2
        /\ \A i \in OkTurns(s) : turns[i].nextNode = Absent

\* C9: a sessionId already used with one agent can be used with another: the
\* insert of a session fails only for want of an initial node, never because
\* the sessionId is taken.
C9_KeyedBySessionAndAgent ==
    \A i \in TurnIds :
        (turns[i].pc = "done" /\ turns[i].message = "SQLITE_CONSTRAINT")
            => turns[i].currentNode = Undefined

\* C10: a step of a turn changes no session row but that of its own
\* sessionId, and with concurrent turns for different sessionIds only each
\* session stands where its own successful turns lead.
C10_Frame ==
    \A i \in TurnIds, s \in SessionIds :
        (turns'[i] # turns[i] /\ turns'[i].sessionId # s)
            => sessions'[s] = sessions[s]

C10_DistinctSessionsIndependent ==
    /\ [][C10_Frame]_vars
    /\ [](\A s \in SessionIds : SessionAtNthNode(s))

C10_Witness ==
    \E i, j \in TurnIds :
        /\ turns[i].sessionId # turns[j].sessionId
        /\ turns[i].pc = "updateSession"
        /\ turns[j].pc = "updateSession"
        /\ sessions[turns[i].sessionId] # NoRow
        /\ sessions[turns[j].sessionId] # NoRow

\* C11: a turn for a sessionId with no stored session creates the session at
\* the first node of the workflow, with an empty mapping as context both in
\* the turn and in the persisted row, and runs at that node.
C11_FirstContactCreatesEmptySession ==
    \A i \in TurnIds :
        (turns[i].pc = "selectWorkflow" /\ turns[i].session = "created")
        => LET row == sessions[turns[i].sessionId]
               wf == WorkflowOf(turns[i].agentId)
           IN /\ row # NoRow
              /\ row.agentId = turns[i].agentId
              /\ row.currentNode = wf[1].id
              /\ turns[i].currentNode = wf[1].id
              /\ turns[i].context = EmptyObject
              /\ row.context # SqlNull
              /\ JSONparse(row.context) = EmptyObject

\* C12: when a turn that loaded or created its session is answered, with
\* success or with an error, the persisted currentNode of the session is the
\* node the turn ran at or the declared successor of that node.
C12_Answered(i) == turns[i].pc # "done" /\ turns'[i].pc = "done"

C12_Step ==
    \A i \in TurnIds :
        (C12_Answered(i) /\ turns'[i].session # "none")
        => LET row == sessions'[turns'[i].sessionId]
               wf == WorkflowOf(turns'[i].agentId)
           IN /\ row # NoRow
              /\ row.currentNode \in
                    {turns'[i].currentNode,
                     Successor(wf, turns'[i].currentNode)}

C12_AtMostOneNodePerTurn == [][C12_Step]_vars

\* Turn j is turn i submitted again: the same sessionId, agent and input, no
\* other turn of that session in between, and both answered with success.
Resubmitted(i, j) ==
    /\ i < j
    /\ turns[i].pc = "done" /\ turns[i].outcome = "success"
    /\ turns[j].pc = "done" /\ turns[j].outcome = "success"
    /\ turns[j].sessionId = turns[i].sessionId
    /\ turns[j].agentId = turns[i].agentId
    /\ turns[j].input = turns[i].input
    /\ \A k \in TurnIds :
          (i < k /\ k < j) => turns[k].sessionId # turns[i].sessionId

\* The node turn i ran at writes nothing into the context.
NoContextWrite(i) == turns[i].currentNode # "collectInformation"

\* The node turn i ran at is a node of the workflow with no successor.
RanAtTerminal(i) ==
    LET wf == WorkflowOf(turns[i].agentId) IN
    /\ turns[i].currentNode \in NodeIdsOf(wf)
    /\ Successor(wf, turns[i].currentNode) = Absent

\* C13 as stated: the same turn submitted twice against a session whose
\* current node performs no context write returns the same nextNode (and so
\* the same ended value) in both responses.
C13_SameTurnTwiceSameNext ==
    \A i, j \in TurnIds :
        (Resubmitted(i, j) /\ NoContextWrite(i))
            => turns[j].nextNode = turns[i].nextNode

\* C13, amended: the same turn submitted twice, one after the other, against
\* a session whose current node performs no context write and has no
\* successor returns nextNode null in both responses.
C13_SameTurnTwiceAtTerminal ==
    \A i, j \in TurnIds :
        (Resubmitted(i, j) /\ NoContextWrite(i) /\ RanAtTerminal(i))
            => /\ turns[i].nextNode = Absent
               /\ turns[j].nextNode = Absent
               /\ turns[j].currentNode = turns[i].currentNode

C13_Witness ==
    \E i, j \in TurnIds :
        /\ Resubmitted(i, j)
        /\ NoContextWrite(i)
        /\ RanAtTerminal(i)
        /\ turns[i].session = "found"
        /\ turns[j].nextNode = Absent

\* C14: every stored workflow that a turn was served from has a start node,
\* unique node ids and no nextNode naming a missing node, and the persisted
\* currentNode of every session is a node of the workflow of its agent.
C14_WorkflowsWellFormed ==
    /\ \A i \in TurnIds :
          (turns[i].pc = "done" /\ turns[i].outcome = "success")
              => WellFormed(WorkflowOf(turns[i].agentId))
    /\ \A s \in SessionIds :
          sessions[s] # NoRow =>
              sessions[s].currentNode \in
                  NodeIdsOf(WorkflowOf(sessions[s].agentId))

\* The records in the index that create request c upserted.
RecordsOf(c) == { r \in index : r.id[1] = creates[c].agentId }

\* C16: no record upserted for an agent overwrites another one: neither a
\* record of the same ingestion call nor a record of the ingestion call of
\* another knowledge doc of the same create request, so the index holds as
\* many records of the agent as were upserted for it.
C16_NoRecordOverwritten ==
    \A c \in CreateIds :
        creates[c].pc # "idle" =>
            Cardinality(RecordsOf(c)) = creates[c].upserted

\* First half of C16 alone: the records of one ingestion call have pairwise
\* distinct ids.
C16_DistinctWithinCall ==
    \A c \in CreateIds :
        \A v, w \in creates[c].vectors : v.id = w.id => v = w

\* The leads turn i added to the lead store.
LeadsOf(i) == { k \in 1..Len(leads) : leads[k].turn = i }

SavedLead(i) == calls[i] # NoCall /\ calls[i].name = "saveLeadData"

\* C15: a turn during which the function call saveLeadData({info: X}) was
\* dispatched has added exactly one lead to the lead store, and its
\* followupInfo is X; a turn with no such function call has added none.
C15_SaveLeadDataAddsOneLead ==
    /\ \A i \in TurnIds :
          IF SavedLead(i)
          THEN /\ Cardinality(LeadsOf(i)) = 1
               /\ \A k \in LeadsOf(i) : leads[k].followupInfo = calls[i].info
          ELSE LeadsOf(i) = {}
    /\ Len(leads) = Cardinality({ i \in TurnIds : SavedLead(i) })

C15_Witness ==
    \E i, j \in TurnIds :
        /\ turns[i].pc = "done" /\ SavedLead(i)
        /\ calls[i].info = "wants a callback"
        /\ turns[i].currentNode = "followUp"
        /\ turns[j].pc = "done" /\ calls[j] = NoCall
        /\ turns[j].outcome = "success"
        /\ Len(leads) = 1
        /\ leads[1].followupInfo = "wants a callback"

\* C17: a turn that found its session and is answered with an error has
\* written nothing to the session table: no step of it changed a row (every
\* change of a row by a turn is counted in its writes), so the currentNode
\* and context of the session are those the turn found.
C17_Step ==
    \A i \in TurnIds :
        /\ (turns'[i] # turns[i] /\ sessions' # sessions)
              => turns'[i].writes = turns[i].writes + 1
        /\ ( /\ C12_Answered(i)
             /\ turns'[i].outcome = "error"
             /\ turns'[i].session = "found" )
              => /\ sessions' = sessions
                 /\ turns'[i].writes = 0

C17_FailedTurnLeavesSession == [][C17_Step]_vars

C17_Witness ==
    \E i \in TurnIds :
        /\ turns[i].pc = "done"
        /\ turns[i].outcome = "error"
        /\ turns[i].session = "found"
        /\ turns[i].retrieval = "failed"
        /\ turns[i].nextNode # Absent
        /\ sessions[turns[i].sessionId].currentNode = turns[i].currentNode
        /\ FromColumn(sessions[turns[i].sessionId].context) = turns[i].context

\* The persisted currentNode of session s is a node with no successor.
AtTerminal(s) ==
    /\ sessions[s] # NoRow
    /\ LET wf == WorkflowOf(sessions[s].agentId) IN
       /\ sessions[s].currentNode \in NodeIdsOf(wf)
       /\ Successor(wf, sessions[s].currentNode) = Absent

\* C18: a terminal node is absorbing.  Once the persisted currentNode of a
\* session is a node with no successor it stays that node, and every turn
\* that finds the session there runs at that node, writes nothing to the
\* session and, when answered with success, returns nextNode null.
C18_Step ==
    \A s \in SessionIds :
        AtTerminal(s) => sessions'[s].currentNode = sessions[s].currentNode

C18_TurnAtTerminal ==
    \A i \in TurnIds :
        (turns[i].session = "found" /\ RanAtTerminal(i))
        => /\ turns[i].writes = 0
           /\ turns[i].pc # "updateSession"
           /\ (turns[i].pc = "done" /\ turns[i].outcome = "success")
                 => turns[i].nextNode = Absent

C18_TerminalAbsorbing == [][C18_Step]_vars /\ []C18_TurnAtTerminal

\* The turns of session s that created its row.
Creators(s) ==
    { i \in TurnIds : turns[i].sessionId = s /\ turns[i].session = "created" }

\* C19: of the turns for one sessionId that found no session, at most one
\* creates the row.  The INSERT of a turn that meets an existing row leaves
\* the table as it is and the turn is answered with an error.
C19_Step ==
    \A i \in TurnIds :
        ( /\ turns[i].pc = "insertSession"
          /\ turns'[i] # turns[i]
          /\ sessions[turns[i].sessionId] # NoRow )
        => /\ sessions' = sessions
           /\ turns'[i].pc = "done"
           /\ turns'[i].outcome = "error"
           /\ turns'[i].writes = 0

C19_AtMostOneCreated ==
    \A s \in SessionIds : Cardinality(Creators(s)) <= 1

C19_OneCreationPerSession == [][C19_Step]_vars /\ []C19_AtMostOneCreated

C19_Witness ==
    \E i, j \in TurnIds :
        /\ i # j
        /\ turns[i].sessionId = turns[j].sessionId
        /\ turns[i].session = "created"
        /\ turns[j].pc = "done"
        /\ turns[j].session = "none"
        /\ turns[j].outcome = "error"
        /\ turns[j].message = "SQLITE_CONSTRAINT"
        /\ turns[j].currentNode # Undefined
        /\ sessions[turns[i].sessionId].agentId = turns[i].agentId

\* C20: the workflow row of an agent is stored after its agent row and before
\* the ingestion of its knowledge docs starts, so every agentId returned in
\* a success reply has its workflow row, and no turn for an agent known from
\* a success reply fails with 'Workflow not found'.
C20_WorkflowStoredBeforeReply ==
    /\ \A c \in CreateIds :
          /\ creates[c].pc # "idle" => creates[c].agentId \in agents
          /\ creates[c].pc \in {"fetch", "embed", "upsert", "done"}
                => workflows[creates[c].agentId] # NoRow
    /\ \A a \in AgentIds : workflows[a] # NoRow => a \in agents
    /\ \A i \in TurnIds :
          (turns[i].pc # "idle" /\ Known(turns[i].agentId))
              => turns[i].message # "Workflow not found"

C20_Witness ==
    \E c \in CreateIds, i \in TurnIds :
        /\ creates[c].pc = "done"
        /\ creates[c].outcome = "success"
        /\ creates[c].upserted > 0
        /\ turns[i].agentId = creates[c].agentId
        /\ turns[i].pc = "done"
        /\ turns[i].session = "created"
        /\ turns[i].outcome = "success"

====
